---------------------------- MODULE Spec2Model ----------------------------
(***************************************************************************)
(* Chroma-key pipeline of src/src/ProdReadyChroma.tsx: the WebGL program   *)
(* set-up (init), the hex colour parser (hexColorToRGBPct), the fragment   *)
(* shader (RGBtoUV, ProcessChromaKey), the draw loop (startProcessing /    *)
(* processFrame) and the lifecycle of the WGL object (start, stop, the     *)
(* React effect and its cleanup).                                          *)
(*                                                                         *)
(* Numbers.  Colour components, chroma coordinates, distances and the      *)
(* thresholds similarity / smoothness / spill are fixed-point values in    *)
(* thousandths (Scale = 1.0), computed with exact integer arithmetic and   *)
(* floor rounding where the GPU would round a float.                       *)
(*                                                                         *)
(* Scheduling.  JavaScript runs one task to completion at a time: the      *)
(* statements of processFrame are the steps PF_* below, sequenced by pc,   *)
(* and host calls, callbacks and source events are dispatched only when    *)
(* no task is running (pc = "idle").                                       *)
(***************************************************************************)
EXTENDS Integers, Sequences, FiniteSets

\* 1.0 in fixed point (thousandths).
Scale == 1000

\* Largest number of cycles the host is let to have armed at once (start()
\* is not called again while this many callbacks are pending).
MaxPending == 2

\* Size of a <canvas> that declares no width / height attribute.
DefaultCanvasWidth == 300
DefaultCanvasHeight == 150

-----------------------------------------------------------------------------
(* Arithmetic helpers                                                      *)

Min(a, b) == IF a < b THEN a ELSE b
Max(a, b) == IF a > b THEN a ELSE b

\* GLSL clamp(x, 0., 1.) on fixed-point values.
clamp01(x) == Min(Max(x, 0), Scale)

\* Floor of the square root of the number v, for 0 <= v <= 4 * Scale * Scale.
FloorSqrt(v) == CHOOSE r \in 0..(2 * Scale) : r * r <= v /\ (r + 1) * (r + 1) > v

\* sqrt(x): the expression x is evaluated once, then its root is taken.
isqrt(x) == CHOOSE r \in { FloorSqrt(v) : v \in {x} } : TRUE

\* GLSL pow(x, 1.5) for x in [0, 1]: x^1.5 = sqrt(x^3).
pow15(x) == isqrt((x * x * x) \div Scale)

-----------------------------------------------------------------------------
(* hexColorToRGBPct                                                        *)

HexChars == <<"0", "1", "2", "3", "4", "5", "6", "7", "8", "9",
              "a", "b", "c", "d", "e", "f">>
HexCharsUpper == <<"0", "1", "2", "3", "4", "5", "6", "7", "8", "9",
                   "A", "B", "C", "D", "E", "F">>

IsHexDigit(c) == \E i \in 1..16 : HexChars[i] = c \/ HexCharsUpper[i] = c

HexDigitValue(c) == (CHOOSE i \in 1..16 : HexChars[i] = c \/ HexCharsUpper[i] = c) - 1

\* parseInt(s, 16) of a string of hex digits (a sequence of characters).
RECURSIVE parseInt16(_)
parseInt16(s) ==
  IF s = <<>> THEN 0
  ELSE 16 * parseInt16(SubSeq(s, 1, Len(s) - 1)) + HexDigitValue(s[Len(s)])

\* sharpLeadingHex.match(/^#([0-9a-f]{6})$/i)?.[1]; <<>> stands for undefined.
MatchHex(sharpLeadingHex) ==
  IF /\ Len(sharpLeadingHex) = 7
     /\ sharpLeadingHex[1] = "#"
     /\ \A i \in 2..7 : IsHexDigit(sharpLeadingHex[i])
  THEN SubSeq(sharpLeadingHex, 2, 7)
  ELSE <<>>

\* byte / 255, in thousandths.
BytePct(b) == (b * Scale) \div 255

hexColorToRGBPct(sharpLeadingHex) ==
  LET noSharp == MatchHex(sharpLeadingHex)
      zero == <<"0">>
  IN << BytePct(parseInt16(IF noSharp # <<>> THEN SubSeq(noSharp, 1, 2) ELSE zero)),
        BytePct(parseInt16(IF noSharp # <<>> THEN SubSeq(noSharp, 3, 4) ELSE zero)),
        BytePct(parseInt16(IF noSharp # <<>> THEN SubSeq(noSharp, 5, 6) ELSE zero)) >>

-----------------------------------------------------------------------------
(* Fragment shader                                                         *)

\* vec2 RGBtoUV(vec3 rgb)
RGBtoUV(rgb) ==
  << (rgb[1] * (-169) + rgb[2] * (-331) + rgb[3] * 500) \div Scale + 500,
     (rgb[1] * 500 + rgb[2] * (-419) + rgb[3] * (-81)) \div Scale + 500 >>

\* GLSL distance(p, q) of two vec2.
distance(p, q) ==
  isqrt((p[1] - q[1]) * (p[1] - q[1]) + (p[2] - q[2]) * (p[2] - q[2]))

\* chromaDist of the sampled texel and the key colour.
chromaDist(rgb, keyColor) == distance(RGBtoUV(rgb), RGBtoUV(keyColor))

\* pow(clamp(baseMask / threshold, 0., 1.), 1.5) for threshold # 0.
Mask(baseMask, threshold) == pow15(clamp01((baseMask * Scale) \div threshold))

\* The values pow(clamp(baseMask / threshold, 0., 1.), 1.5) can take.  A
\* division by zero has no defined result in GLSL ES: after the clamp the
\* build may produce either end of [0, 1].
MaskOutcomes(baseMask, threshold) ==
  IF threshold = 0 THEN {0, Scale} ELSE {Mask(baseMask, threshold)}

\* mix(a, b, t) on one component.
mix(a, b, t) == (a * (Scale - t) + b * t) \div Scale

\* desat = clamp(r * 0.2126 + g * 0.7152 + b * 0.0722, 0., 1.)
Desat(rgb) == clamp01((rgb[1] * 2126 + rgb[2] * 7152 + rgb[3] * 722) \div 10000)

\* ProcessChromaKey with baseMask = chromaDist: the subtraction of
\* similarity left out.
ProcessChromaKey_NoSimilarity(rgb, keyColor, similarity, smoothness, spill) ==
  LET baseMask == chromaDist(rgb, keyColor)
      desat == Desat(rgb)
  IN { [ rgb |-> << mix(desat, rgb[1], spillVal),
                    mix(desat, rgb[2], spillVal),
                    mix(desat, rgb[3], spillVal) >>,
         a |-> fullMask ] :
       fullMask \in MaskOutcomes(baseMask, smoothness),
       spillVal \in MaskOutcomes(baseMask, spill) }

\* vec4 ProcessChromaKey: the set of fragments [rgb, a] the shader may
\* write for a texel rgba.rgb = rgb under the uniform values given.
ProcessChromaKey(rgb, keyColor, similarity, smoothness, spill) ==
  LET baseMask == chromaDist(rgb, keyColor) - similarity
      desat == Desat(rgb)
  IN { [ rgb |-> << mix(desat, rgb[1], spillVal),
                    mix(desat, rgb[2], spillVal),
                    mix(desat, rgb[3], spillVal) >>,
         a |-> fullMask ] :
       fullMask \in MaskOutcomes(baseMask, smoothness),
       spillVal \in MaskOutcomes(baseMask, spill) }

-----------------------------------------------------------------------------
(* Inputs                                                                  *)

\* Native sizes the video element reports: 0 x 0 until the first frame is
\* decoded, then sizes that differ in width, in height or in both, one of
\* them as wide as a default canvas.
VideoSizes ==
  { [videoWidth |-> 0, videoHeight |-> 0],
    [videoWidth |-> 300, videoHeight |-> 150],
    [videoWidth |-> 300, videoHeight |-> 200],
    [videoWidth |-> 640, videoHeight |-> 360],
    [videoWidth |-> 640, videoHeight |-> 480] }

\* Pixels (bytes) of the frame at the sampled texture coordinate.
FramePixels == { <<0, 0, 0>>, <<17, 255, 5>>, <<255, 0, 0>> }

\* The key colour of defaultValues, and other strings a host may supply.
DefaultKeyColor == <<"#", "1", "1", "f", "f", "0", "5">>
UpperKeyColor == <<"#", "1", "1", "F", "F", "0", "5">>
BlackKeyColor == <<"#", "0", "0", "0", "0", "0", "0">>
BadKeyColor == <<"g", "r", "e", "e", "n">>

\* The values the demo's getConfig returns on every call.
DemoDefaultValues ==
  [keycolor |-> DefaultKeyColor, similarity |-> 400, smoothness |-> 80, spill |-> 100]

\* Values of the tweakable parameters that getConfig hands to processFrame
\* (startProcessing takes getConfig as a parameter; the demo's getConfig
\* returns defaultValues).  The others put similarity
\* at, below and above the chroma distance 511 of a black pixel from the
\* default key colour, and take values outside the valid ranges.
TweakValues ==
  { DemoDefaultValues,
    [keycolor |-> UpperKeyColor, similarity |-> 511, smoothness |-> 80, spill |-> 80],
    [keycolor |-> DefaultKeyColor, similarity |-> 431, smoothness |-> 80, spill |-> 100],
    [keycolor |-> DefaultKeyColor, similarity |-> 471, smoothness |-> 80, spill |-> 100],
    [keycolor |-> BlackKeyColor, similarity |-> 0, smoothness |-> 80, spill |-> 100],
    [keycolor |-> BadKeyColor, similarity |-> 400, smoothness |-> 0, spill |-> 100],
    [keycolor |-> DefaultKeyColor, similarity |-> 400, smoothness |-> 80, spill |-> -100] }

\* What getContext / init can meet: a missing context or object (thrown),
\* a fragment shader that does not compile, a program that does not link.
InitOutcomes ==
  { "noContext", "noVertexShader", "noFragmentShader", "noProgram",
    "compileFails", "linkFails", "ok" }

-----------------------------------------------------------------------------
(* State                                                                   *)

VARIABLES
  lifecycle,      \* "unmounted", "mounted", "failed" (the effect threw), "torndown"
  initError,      \* message of the Error the effect threw, "none" otherwise
  shaderStatus,   \* [compiled, linked]: COMPILE_STATUS of fs, LINK_STATUS of prog
  consoleError,   \* console.error was called with the shader info log
  progDeleted,    \* gl.deleteProgram(wgl.prog) was called
  rvfcAvailable,  \* wgl.requestVideoFrameCallbackIsAvailable
  stopped,        \* wgl.stopped
  pending,        \* callbacks registered and not yet run: [rvfc, timeout, raf]
  video,          \* [videoWidth, videoHeight] of sourceVideoEl
  canvas,         \* [width, height] of displayCanvasEl
  viewport,       \* <<x, y, width, height>> of the GL viewport
  tex,            \* texel of the bound texture at the sampled coordinate
  uniforms,       \* values last passed to the gl.uniform* calls
  fragment,       \* [rgb, a] last written for the sampled coordinate
  pc,             \* statement of processFrame about to run, "idle" between tasks
  inStart,        \* "none", or the state start() was called in, while it runs
  active,         \* processFrame activations entered and not yet returned
  ops,            \* GL and scheduling calls of the current (or last) cycle
  blocked,        \* the current (or last) cycle returned at its first guard
  firedSinceStop, \* callbacks that ran processFrame since stop(), while stopped
  everDrew,       \* gl.drawArrays has been called
  config,         \* const config of the current (or last) processFrame activation
  lastDraw        \* [mode, first, count] of the last gl.drawArrays call

initVars == <<lifecycle, initError, shaderStatus, consoleError, progDeleted, rvfcAvailable>>
glVars == <<canvas, viewport, tex, uniforms, fragment>>
cycleVars == <<ops, blocked, everDrew, config, lastDraw>>

vars == <<lifecycle, initError, shaderStatus, consoleError, progDeleted,
          rvfcAvailable, stopped, pending, video, canvas, viewport, tex,
          uniforms, fragment, pc, inStart, active, ops, blocked,
          firedSinceStop, everDrew, config, lastDraw>>

NoUniforms ==
  [texWidth |-> 0, texHeight |-> 0, keyColor |-> <<0, 0, 0>>,
   similarity |-> 0, smoothness |-> 0, spill |-> 0]

\* const config before getConfig() has returned.
NoConfig ==
  [keycolor |-> <<>>, similarity |-> 0, smoothness |-> 0, spill |-> 0]

\* No draw call made yet.
NoDraw == [mode |-> "none", first |-> 0, count |-> 0]

Init ==
  /\ lifecycle = "unmounted"
  /\ initError = "none"
  /\ shaderStatus = [compiled |-> FALSE, linked |-> FALSE]
  /\ consoleError = FALSE
  /\ progDeleted = FALSE
  /\ rvfcAvailable = FALSE
  /\ stopped = TRUE
  /\ pending = [rvfc |-> 0, timeout |-> 0, raf |-> 0]
  /\ video = [videoWidth |-> 0, videoHeight |-> 0]
  /\ canvas = [width |-> DefaultCanvasWidth, height |-> DefaultCanvasHeight]
  /\ viewport = <<0, 0, DefaultCanvasWidth, DefaultCanvasHeight>>
  /\ tex = <<0, 0, 0>>
  /\ uniforms = NoUniforms
  /\ fragment = [rgb |-> <<0, 0, 0>>, a |-> 0]
  /\ pc = "idle"
  /\ inStart = "none"
  /\ active = 0
  /\ ops = <<>>
  /\ blocked = FALSE
  /\ firedSinceStop = 0
  /\ everDrew = FALSE
  /\ config = NoConfig
  /\ lastDraw = NoDraw

HasOp(log, op) == \E i \in 1..Len(log) : log[i] = op

NumPending == pending.rvfc + pending.timeout + pending.raf

-----------------------------------------------------------------------------
(* Lifecycle: the effect, wgl.start, wgl.stop, the effect's cleanup        *)

\* wgl.useRequestVideoFrameCallback
useRequestVideoFrameCallback == TRUE

\* A call of processFrame: control enters at its first statement.
CallProcessFrame ==
  /\ pc' = "guard1"
  /\ active' = active + 1
  /\ ops' = <<>>
  /\ blocked' = FALSE
  /\ config' = NoConfig

\* A return of processFrame; its caller (start(), or the callback
\* dispatch) has nothing left to do, so the task ends.
ReturnFromProcessFrame ==
  /\ pc' = "idle"
  /\ active' = active - 1
  /\ inStart' = "none"

\* wgl.start without wgl.stopped = false.
StartBody_FlagKept ==
  /\ inStart' = IF stopped THEN "fromStopped" ELSE "fromRunning"
  /\ UNCHANGED stopped
  /\ firedSinceStop' = 0
  /\ CallProcessFrame

\* Body of wgl.start: clears the flag and runs startProcessing, which
\* looks up the uniform locations and calls processFrame.
StartBody ==
  /\ inStart' = IF stopped THEN "fromStopped" ELSE "fromRunning"
  /\ stopped' = FALSE
  /\ firedSinceStop' = 0
  /\ CallProcessFrame

\* function init(gl), with the getContext check before it: the Error it
\* throws ("none" when it returns prog), for each outcome.
InitThrows(outcome) ==
  CASE outcome = "noContext" -> "Could not initialize webgl"
    [] outcome = "noVertexShader" -> "Could not create VERTEX_SHADER"
    [] outcome = "noFragmentShader" -> "Could not create FRAGMENT_SHADER"
    [] outcome = "noProgram" -> "Could not create WebGL Program"
    [] OTHER -> "none"

\* The effect of ProdReadyChromaDemo: getContext, init, the WGL object,
\* wgl.start().
Mount ==
  /\ lifecycle = "unmounted"
  /\ pc = "idle"
  /\ \E outcome \in InitOutcomes, probe \in BOOLEAN :
       IF InitThrows(outcome) # "none"
       THEN /\ lifecycle' = "failed"
            /\ initError' = InitThrows(outcome)
            /\ UNCHANGED <<consoleError, shaderStatus, progDeleted, rvfcAvailable, stopped,
                           pending, pc, inStart, active, firedSinceStop>>
            /\ UNCHANGED cycleVars
       ELSE /\ lifecycle' = "mounted"
            /\ shaderStatus' = [compiled |-> outcome # "compileFails",
                                linked |-> outcome = "ok"]
            /\ consoleError' = (outcome = "compileFails")
            /\ rvfcAvailable' = probe
            /\ StartBody
            /\ UNCHANGED <<initError, progDeleted, pending, everDrew,
                 lastDraw>>
  /\ UNCHANGED video
  /\ UNCHANGED glVars

\* wgl.start(), called by the host on a mounted component.
Start ==
  /\ lifecycle = "mounted"
  /\ pc = "idle"
  /\ NumPending < MaxPending
  /\ StartBody
  /\ UNCHANGED initVars
  /\ UNCHANGED glVars
  /\ UNCHANGED <<pending, video, everDrew,
                 lastDraw>>

\* Body of wgl.stop.
StopBody ==
  /\ stopped' = TRUE
  /\ firedSinceStop' = 0

\* wgl.stop(), called by the host.
Stop ==
  /\ lifecycle = "mounted"
  /\ pc = "idle"
  /\ StopBody
  /\ UNCHANGED initVars
  /\ UNCHANGED glVars
  /\ UNCHANGED cycleVars
  /\ UNCHANGED <<pending, video, pc, inStart, active>>

\* The cleanup without wgl.stop(): the program is deleted while Running.
Unmount_NoStop ==
  /\ lifecycle = "mounted"
  /\ pc = "idle"
  /\ progDeleted' = TRUE
  /\ lifecycle' = "torndown"
  /\ UNCHANGED <<initError, shaderStatus, consoleError, rvfcAvailable>>
  /\ UNCHANGED glVars
  /\ UNCHANGED cycleVars
  /\ UNCHANGED <<stopped, firedSinceStop, pending, video, pc, inStart, active>>

\* Cleanup of the effect: wgl.stop(); gl.deleteProgram(wgl.prog).
Unmount ==
  /\ lifecycle = "mounted"
  /\ pc = "idle"
  /\ StopBody
  /\ progDeleted' = TRUE
  /\ lifecycle' = "torndown"
  /\ UNCHANGED <<initError, shaderStatus, consoleError, rvfcAvailable>>
  /\ UNCHANGED glVars
  /\ UNCHANGED cycleVars
  /\ UNCHANGED <<pending, video, pc, inStart, active>>

-----------------------------------------------------------------------------
(* processFrame, statement by statement                                    *)

\* getConfig of wgl.start, for the tweakable values given.
getConfig(defaultValues) ==
  [defaultValues EXCEPT !.keycolor = hexColorToRGBPct(defaultValues.keycolor)]

\* The texel a frame pixel becomes (RGB, UNSIGNED_BYTE, normalised).
Texel(px) == << BytePct(px[1]), BytePct(px[2]), BytePct(px[3]) >>

\* processFrame without its first guard.
PF_Guard1_Missing ==
  /\ pc = "guard1"
  /\ pc' = "sync"
  /\ UNCHANGED <<blocked, active, inStart>>
  /\ UNCHANGED initVars
  /\ UNCHANGED glVars
  /\ UNCHANGED <<stopped, pending, video, ops, firedSinceStop, everDrew,
                 lastDraw, config>>

\* if (wgl.stopped) return;
PF_Guard1 ==
  /\ pc = "guard1"
  /\ IF stopped
     THEN /\ blocked' = TRUE
          /\ ReturnFromProcessFrame
     ELSE /\ pc' = "sync"
          /\ UNCHANGED <<blocked, active, inStart>>
  /\ UNCHANGED initVars
  /\ UNCHANGED glVars
  /\ UNCHANGED <<stopped, pending, video, ops, firedSinceStop, everDrew,
                 lastDraw, config>>

\* if (videoWidth !== canvas.width) { resize the canvas; gl.viewport(...) }
PF_ViewportSync ==
  /\ pc = "sync"
  /\ IF video.videoWidth # canvas.width
     THEN /\ canvas' = [width |-> video.videoWidth, height |-> video.videoHeight]
          /\ viewport' = <<0, 0, video.videoWidth, video.videoHeight>>
          /\ ops' = ops \o <<"resize", "viewport">>
     ELSE UNCHANGED <<canvas, viewport, ops>>
  /\ pc' = "upload"
  /\ UNCHANGED initVars
  /\ UNCHANGED <<stopped, pending, video, tex, uniforms, fragment, inStart,
                 active, blocked, firedSinceStop, everDrew,
                 lastDraw, config>>

\* gl.texImage2D(..., sourceVideoEl) and the tex / texWidth / texHeight
\* uniforms.  A video without a decoded frame uploads no pixels: the
\* texture then samples as black.
PF_Upload ==
  /\ pc = "upload"
  /\ \E px \in FramePixels :
       tex' = IF video.videoWidth = 0 \/ video.videoHeight = 0
              THEN <<0, 0, 0>>
              ELSE Texel(px)
  /\ uniforms' = [uniforms EXCEPT !.texWidth = video.videoWidth,
                                  !.texHeight = video.videoHeight]
  /\ ops' = ops \o <<"texImage2D", "uniform:tex", "uniform:texWidth", "uniform:texHeight">>
  /\ pc' = "config"
  /\ UNCHANGED initVars
  /\ UNCHANGED <<stopped, pending, video, canvas, viewport, fragment, inStart,
                 active, blocked, firedSinceStop, everDrew,
                 lastDraw, config>>

\* The statements with the snapshot read once and kept: later cycles set
\* no config uniform and do not call getConfig.
SetConfigUniforms_Cached ==
  /\ pc = "config"
  /\ IF everDrew
     THEN UNCHANGED <<config, uniforms, ops>>
     ELSE /\ \E values \in TweakValues :
               /\ config' = getConfig(values)
               /\ uniforms' = [uniforms EXCEPT !.keyColor = config'.keycolor,
                                               !.similarity = config'.similarity,
                                               !.smoothness = config'.smoothness,
                                               !.spill = config'.spill]
          /\ ops' = ops \o <<"getConfig", "uniform:keyColor", "uniform:similarity",
                             "uniform:smoothness", "uniform:spill">>
  /\ pc' = "draw"
  /\ UNCHANGED initVars
  /\ UNCHANGED <<pending, video, canvas, viewport, tex, fragment,
                 inStart, active, blocked, everDrew, lastDraw>>

\* const config = getConfig(); and the keyColor / similarity / smoothness /
\* spill uniforms: what the statements do to the state of processFrame and
\* of GL, whatever getConfig does besides returning the snapshot.
SetConfigUniforms ==
  /\ pc = "config"
  /\ \E values \in TweakValues :
       /\ config' = getConfig(values)
       /\ uniforms' = [uniforms EXCEPT !.keyColor = config'.keycolor,
                                       !.similarity = config'.similarity,
                                       !.smoothness = config'.smoothness,
                                       !.spill = config'.spill]
  /\ ops' = ops \o <<"getConfig", "uniform:keyColor", "uniform:similarity",
                     "uniform:smoothness", "uniform:spill">>
  /\ pc' = "draw"
  /\ UNCHANGED initVars
  /\ UNCHANGED <<pending, video, canvas, viewport, tex, fragment,
                 inStart, active, blocked, everDrew, lastDraw>>

\* The statements with a getConfig that only returns the snapshot (as the
\* getConfig of wgl.start does).
PF_Uniforms ==
  /\ SetConfigUniforms
  /\ UNCHANGED <<stopped, firedSinceStop>>

\* The statements with a getConfig that calls wgl.stop() before it returns
\* the snapshot.
PF_UniformsProviderStops ==
  /\ SetConfigUniforms
  /\ StopBody

\* gl.drawArrays called twice in a cycle.
PF_Draw_Twice ==
  /\ pc = "draw"
  /\ IF shaderStatus.linked /\ viewport[3] > 0 /\ viewport[4] > 0
     THEN fragment' \in ProcessChromaKey(tex, uniforms.keyColor, uniforms.similarity,
                                         uniforms.smoothness, uniforms.spill)
     ELSE UNCHANGED fragment
  /\ ops' = ops \o <<"drawArrays", "drawArrays">>
  /\ everDrew' = TRUE
  /\ lastDraw' = [mode |-> "TRIANGLE_FAN", first |-> 0, count |-> 4]
  /\ pc' = "guard2"
  /\ UNCHANGED initVars
  /\ UNCHANGED <<stopped, pending, video, canvas, viewport, tex, uniforms,
                 inStart, active, blocked, firedSinceStop, config>>

\* gl.drawArrays(gl.TRIANGLE_FAN, 0, 4): the shader runs for the pixels of
\* the viewport when the program linked.
PF_Draw ==
  /\ pc = "draw"
  /\ IF shaderStatus.linked /\ viewport[3] > 0 /\ viewport[4] > 0
     THEN fragment' \in ProcessChromaKey(tex, uniforms.keyColor, uniforms.similarity,
                                         uniforms.smoothness, uniforms.spill)
     ELSE UNCHANGED fragment
  /\ ops' = ops \o <<"drawArrays">>
  /\ everDrew' = TRUE
  /\ lastDraw' = [mode |-> "TRIANGLE_FAN", first |-> 0, count |-> 4]
  /\ pc' = "guard2"
  /\ UNCHANGED initVars
  /\ UNCHANGED <<stopped, pending, video, canvas, viewport, tex, uniforms,
                 inStart, active, blocked, firedSinceStop,
                 config>>

\* processFrame without its second guard.
PF_Guard2_Missing ==
  /\ pc = "guard2"
  /\ pc' = "arm"
  /\ UNCHANGED <<active, inStart>>
  /\ UNCHANGED initVars
  /\ UNCHANGED glVars
  /\ UNCHANGED cycleVars
  /\ UNCHANGED <<stopped, pending, video, firedSinceStop>>

\* if (wgl.stopped) return;   (after the draw)
PF_Guard2 ==
  /\ pc = "guard2"
  /\ IF stopped
     THEN ReturnFromProcessFrame
     ELSE /\ pc' = "arm"
          /\ UNCHANGED <<active, inStart>>
  /\ UNCHANGED initVars
  /\ UNCHANGED glVars
  /\ UNCHANGED cycleVars
  /\ UNCHANGED <<stopped, pending, video, firedSinceStop>>

\* processFrame calling itself where it should register a callback.
PF_Arm_DirectCall ==
  /\ pc = "arm"
  /\ CallProcessFrame
  /\ UNCHANGED initVars
  /\ UNCHANGED glVars
  /\ UNCHANGED <<stopped, pending, video, inStart, firedSinceStop, everDrew,
                 lastDraw>>

\* processFrame returning after its second guard without registering a
\* callback.
PF_Arm_Forgotten ==
  /\ pc = "arm"
  /\ ReturnFromProcessFrame
  /\ UNCHANGED initVars
  /\ UNCHANGED glVars
  /\ UNCHANGED cycleVars
  /\ UNCHANGED <<stopped, pending, video, firedSinceStop>>

\* The strategy chosen anew in each cycle from the state of the source:
\* the frame callback only once the video has a decoded frame.
PF_Arm_ProbeEachCycle ==
  /\ pc = "arm"
  /\ IF useRequestVideoFrameCallback /\ rvfcAvailable /\ video.videoWidth > 0
     THEN pending' = [pending EXCEPT !.rvfc = @ + 1]
     ELSE pending' = [pending EXCEPT !.timeout = @ + 1]
  /\ ops' = ops \o <<"arm">>
  /\ ReturnFromProcessFrame
  /\ UNCHANGED initVars
  /\ UNCHANGED glVars
  /\ UNCHANGED <<stopped, video, blocked, firedSinceStop, everDrew,
                 lastDraw, config>>

\* requestVideoFrameCallback(processFrame), or setTimeout(..., 1000 / 24)
PF_Arm ==
  /\ pc = "arm"
  /\ IF useRequestVideoFrameCallback /\ rvfcAvailable
     THEN pending' = [pending EXCEPT !.rvfc = @ + 1]
     ELSE pending' = [pending EXCEPT !.timeout = @ + 1]
  /\ ops' = ops \o <<"arm">>
  /\ ReturnFromProcessFrame
  /\ UNCHANGED initVars
  /\ UNCHANGED glVars
  /\ UNCHANGED <<stopped, video, blocked, firedSinceStop, everDrew,
                 lastDraw, config>>

-----------------------------------------------------------------------------
(* Callbacks and the frame source                                          *)

\* A callback that is processFrame itself starts to run.
DispatchProcessFrame ==
  /\ CallProcessFrame
  /\ firedSinceStop' = IF stopped THEN firedSinceStop + 1 ELSE firedSinceStop
  /\ UNCHANGED initVars
  /\ UNCHANGED glVars
  /\ UNCHANGED <<stopped, video, inStart, everDrew,
                 lastDraw>>

\* The video presents a frame: the requestVideoFrameCallback callback runs.
FireVideoFrame ==
  /\ pc = "idle"
  /\ pending.rvfc > 0
  /\ pending' = [pending EXCEPT !.rvfc = @ - 1]
  /\ DispatchProcessFrame

\* The timer callback being processFrame itself: setTimeout(processFrame).
FireTimeout_RunsCycle ==
  /\ pc = "idle"
  /\ pending.timeout > 0
  /\ pending' = [pending EXCEPT !.timeout = @ - 1]
  /\ DispatchProcessFrame

\* The timer expires: () => { requestAnimationFrame(processFrame); }
FireTimeout ==
  /\ pc = "idle"
  /\ pending.timeout > 0
  /\ pending' = [pending EXCEPT !.timeout = @ - 1, !.raf = @ + 1]
  /\ UNCHANGED initVars
  /\ UNCHANGED glVars
  /\ UNCHANGED cycleVars
  /\ UNCHANGED <<stopped, video, pc, inStart, active, firedSinceStop>>

\* The display refreshes: the requestAnimationFrame callback runs.
FireAnimationFrame ==
  /\ pc = "idle"
  /\ pending.raf > 0
  /\ pending' = [pending EXCEPT !.raf = @ - 1]
  /\ DispatchProcessFrame

\* The video element's native size changes (metadata loaded, or the
\* stream switches resolution).
SourceResize ==
  /\ pc = "idle"
  /\ \E size \in VideoSizes \ {video} : video' = size
  /\ UNCHANGED initVars
  /\ UNCHANGED glVars
  /\ UNCHANGED cycleVars
  /\ UNCHANGED <<stopped, pending, pc, inStart, active, firedSinceStop>>

Next ==
  \/ Mount
  \/ Start
  \/ Stop
  \/ Unmount
  \/ PF_Guard1
  \/ PF_ViewportSync
  \/ PF_Upload
  \/ PF_Uniforms
  \/ PF_Draw
  \/ PF_Guard2
  \/ PF_Arm
  \/ FireVideoFrame
  \/ FireTimeout
  \/ FireAnimationFrame
  \/ SourceResize

Spec == Init /\ [][Next]_vars

\* The program with a getConfig that may call wgl.stop().
NextProviderStops ==
  \/ Next
  \/ PF_UniformsProviderStops

SpecProviderStops == Init /\ [][NextProviderStops]_vars

\* A step the platform takes on its own: the running task goes on to its
\* next statement, or (between tasks) a registered callback fires.  Tasks
\* and callbacks are never enabled together, and a callback stays
\* registered until it fires.
PlatformStep ==
  \/ PF_Guard1
  \/ PF_ViewportSync
  \/ PF_Upload
  \/ PF_Uniforms
  \/ PF_Draw
  \/ PF_Guard2
  \/ PF_Arm
  \/ FireVideoFrame
  \/ FireTimeout
  \/ FireAnimationFrame

\* The program under the scheduling the platform provides: a running task
\* runs to completion, and timers expire, the display refreshes and the
\* video presents its next frame.  The host's calls and the source's size
\* changes are under no obligation to happen.
Fairness == WF_vars(PlatformStep)

\* The demo as shipped: every getConfig call returns defaultValues.  The
\* configuration values take no part in the control flow of a cycle.
PF_UniformsDefault == PF_Uniforms /\ config' = getConfig(DemoDefaultValues)

NextDemo ==
  \/ Mount
  \/ Start
  \/ Stop
  \/ Unmount
  \/ PF_Guard1
  \/ PF_ViewportSync
  \/ PF_Upload
  \/ PF_UniformsDefault
  \/ PF_Draw
  \/ PF_Guard2
  \/ PF_Arm
  \/ FireVideoFrame
  \/ FireTimeout
  \/ FireAnimationFrame
  \/ SourceResize

LiveSpec == Init /\ [][NextDemo]_vars /\ Fairness

-----------------------------------------------------------------------------
(* Properties                                                              *)

\* The fragment shader ran in the draw call just issued.
JustShaded ==
  pc = "guard2" /\ shaderStatus.linked /\ viewport[3] > 0 /\ viewport[4] > 0

\* C1: a cycle whose first guard runs while wgl.stopped is set returns at
\* once: it makes no GL call (no canvas resize, viewport, texture upload,
\* uniform or draw) and registers no callback.
C1_StoppedCycleDoesNothing ==
  [][(pc = "guard1" /\ stopped) =>
       /\ pc' = "idle"
       /\ ops' = <<>>
       /\ UNCHANGED glVars
       /\ UNCHANGED <<pending, everDrew>>]_vars

\* C1 witness: a callback armed by a drawing cycle ran after stop() and
\* was turned away by the guard.
C1_Witness ==
  pc = "idle" /\ stopped /\ blocked /\ everDrew /\ firedSinceStop = 1

\* C2 (as claimed): once stop() has returned, at most one armed callback
\* still runs processFrame, and it makes no GL call.
C2_AtMostOneCycleAfterStop ==
  stopped => /\ firedSinceStop <= 1
             /\ (firedSinceStop >= 1 /\ pc = "idle" => ops = <<>>)

\* C3: at most one processFrame activation exists at a time, and none
\* exists between tasks: a cycle begins only after the previous one has
\* drawn, decided about arming and returned.
C3_CyclesNeverOverlap ==
  /\ active <= 1
  /\ (pc = "idle" <=> active = 0)

\* C3 witness: a callback-driven cycle begins after an earlier cycle drew.
C3_Witness ==
  pc = "guard1" /\ active = 1 /\ inStart = "none" /\ everDrew /\ ~stopped

\* C4 (as claimed): when gl.drawArrays is called, the canvas is as wide
\* and as high as the video.
C4_TargetMatchesSourceAtDraw ==
  pc = "draw" => /\ canvas.width = video.videoWidth
                 /\ canvas.height = video.videoHeight

\* C5 (as claimed): a cycle that finds the video's size different from the
\* canvas's resizes the canvas once and sets the viewport to (0, 0) and
\* the new size; a cycle that finds them equal does neither.
C5_OneResizePerChange ==
  [][pc = "sync" =>
       IF video.videoWidth # canvas.width \/ video.videoHeight # canvas.height
       THEN /\ canvas' = [width |-> video.videoWidth, height |-> video.videoHeight]
            /\ viewport' = <<0, 0, video.videoWidth, video.videoHeight>>
            /\ ops' = ops \o <<"resize", "viewport">>
       ELSE UNCHANGED <<canvas, viewport, ops>>]_vars

\* C6 (as claimed): when the fragment shader did not compile or the
\* program did not link, an initialization error was reported, the state
\* is not Running and gl.drawArrays has never been called.
C6_InitFailureStopsPipeline ==
  (lifecycle \in {"mounted", "torndown"} /\ ~shaderStatus.linked) =>
    /\ initError # "none"
    /\ stopped
    /\ ~everDrew

\* C7 (as claimed): in a cycle where the video reports a zero width or
\* height, neither the viewport sync nor the draw call happens.
C7_ZeroSizeSkipsSyncAndDraw ==
  (pc # "idle" /\ (video.videoWidth = 0 \/ video.videoHeight = 0)) =>
    /\ ~HasOp(ops, "resize")
    /\ ~HasOp(ops, "viewport")
    /\ ~HasOp(ops, "drawArrays")

\* C8 (as claimed): the uniforms a draw call runs with have smoothness > 0,
\* spill > 0 and key colour components in [0, 1].
C8_UniformsAlwaysValid ==
  pc = "draw" =>
    /\ uniforms.smoothness > 0
    /\ uniforms.spill > 0
    /\ \A i \in 1..3 : uniforms.keyColor[i] \in 0..Scale

\* C9: when a start() called in state Stopped returns, the state is
\* Running, and the cycle it ran called gl.drawArrays and registered the
\* callback of the next cycle.
C9_StartRunsFirstCycle ==
  [][(inStart = "fromStopped" /\ inStart' = "none") =>
       /\ ~stopped'
       /\ HasOp(ops', "drawArrays")
       /\ HasOp(ops', "arm")
       /\ NumPending' = NumPending + 1]_vars

\* C9 witness: start() was called in state Stopped by the host (not by the
\* effect), its cycle has drawn and is about to arm the next one.
C9_Witness ==
  /\ inStart = "fromStopped"
  /\ pc = "arm"
  /\ HasOp(ops, "drawArrays")
  /\ firedSinceStop = 0
  /\ NumPending = 1

\* C10: for similarity >= 0 and smoothness > 0, the alpha the shader
\* writes is 0 when the chroma distance equals similarity, 0 when the
\* texel is the key colour or their distance is 0, and 1 when the distance
\* is at least similarity + smoothness.
C10_AlphaAtThresholds ==
  (JustShaded /\ uniforms.similarity >= 0 /\ uniforms.smoothness > 0) =>
    LET d == chromaDist(tex, uniforms.keyColor)
    IN /\ (d = uniforms.similarity => fragment.a = 0)
       /\ (tex = uniforms.keyColor \/ d = 0 => fragment.a = 0)
       /\ (d >= uniforms.similarity + uniforms.smoothness => fragment.a = Scale)

\* C10 witness: a draw with the chroma distance exactly at a positive
\* similarity.
C10_Witness ==
  /\ JustShaded
  /\ uniforms.smoothness > 0
  /\ uniforms.similarity > 0
  /\ chromaDist(tex, uniforms.keyColor) = uniforms.similarity
  /\ fragment.a = 0


\* C11 (as claimed): at most one callback that leads to processFrame is
\* registered at any moment, whatever the host's start() / stop() calls.
C11_AtMostOneArmed ==
  NumPending <= 1

\* C12: once the cleanup has deleted the program, no step uploads a
\* texture, sets a uniform or calls gl.drawArrays, also when a callback
\* registered before the cleanup runs afterwards.
C12_NoGLWorkAfterTeardown ==
  [][progDeleted =>
       /\ UNCHANGED glVars
       /\ everDrew' = everDrew
       /\ pc' \in {"idle", "guard1"}
       /\ ops' = <<>> \/ ops' = ops]_vars

\* C12 witness: after the cleanup, a callback registered before it has
\* run processFrame.
C12_Witness ==
  progDeleted /\ pc = "idle" /\ blocked /\ firedSinceStop >= 1 /\ everDrew


\* The calls of a cycle that passes both guards, in program order.
ExpectedOps(resized) ==
  (IF resized THEN <<"resize", "viewport">> ELSE <<>>) \o
  <<"texImage2D", "uniform:tex", "uniform:texWidth", "uniform:texHeight",
    "getConfig", "uniform:keyColor", "uniform:similarity",
    "uniform:smoothness", "uniform:spill", "drawArrays", "arm">>

IsPrefix(p, q) == Len(p) <= Len(q) /\ SubSeq(q, 1, Len(p)) = p

CountOp(log, op) == Cardinality({i \in 1..Len(log) : log[i] = op})

\* C13: the calls of a cycle are, in this order and each at most once, the
\* canvas resize and viewport (when needed), the texture upload, the
\* uniforms, one gl.drawArrays(TRIANGLE_FAN, 0, 4) and, after the second
\* guard, the registration of the next callback; a cycle that ran to its
\* end made all of them.
C13_StepsInOrder ==
  /\ \E resized \in BOOLEAN : IsPrefix(ops, ExpectedOps(resized))
  /\ (pc = "guard2" =>
        /\ ops[Len(ops)] = "drawArrays"
        /\ lastDraw = [mode |-> "TRIANGLE_FAN", first |-> 0, count |-> 4])
  /\ (pc = "arm" => ops[Len(ops)] = "drawArrays")
  /\ (pc = "idle" /\ ops # <<>> => \E resized \in BOOLEAN : ops = ExpectedOps(resized))

\* C13 witness: a cycle that resized the canvas has run to its end.
C13_Witness ==
  pc = "idle" /\ ops = ExpectedOps(TRUE)

\* C14: a cycle calls getConfig once before it draws and not at all when
\* the first guard turns it away, and the key colour, similarity,
\* smoothness and spill uniforms of its draw are those of the snapshot
\* that call returned.
C14_ConfigReadOncePerCycle ==
  /\ (blocked => ~HasOp(ops, "getConfig") /\ config = NoConfig)
  /\ (pc \in {"guard1", "sync", "upload", "config"} => config = NoConfig)
  /\ (HasOp(ops, "drawArrays") =>
        /\ CountOp(ops, "getConfig") = 1
        /\ config # NoConfig
        /\ uniforms.keyColor = config.keycolor
        /\ uniforms.similarity = config.similarity
        /\ uniforms.smoothness = config.smoothness
        /\ uniforms.spill = config.spill)

\* C14 witness: a callback-driven cycle has drawn with a snapshot other
\* than the default values.
C14_Witness ==
  /\ pc = "guard2"
  /\ inStart = "none"
  /\ config.similarity = 511
  /\ uniforms.similarity = 511

C16_StrategyFixed ==
  /\ [][lifecycle # "unmounted" => rvfcAvailable' = rvfcAvailable]_vars
  /\ [](IF useRequestVideoFrameCallback /\ rvfcAvailable
        THEN pending.timeout = 0 /\ pending.raf = 0
        ELSE pending.rvfc = 0)

\* C16 witness: two cycles armed under the timer strategy, one waiting for
\* its timer and one for its animation frame.
C16_Witness ==
  /\ lifecycle = "mounted"
  /\ ~rvfcAvailable
  /\ pending.timeout = 1
  /\ pending.raf = 1

\* C19: under the timer strategy an animation-frame callback is registered
\* only by a timer that expires, and processFrame is run as a callback
\* only by an animation frame: never by the timer's expiry itself.
C19_TimerThenAnimationFrame ==
  [][~(useRequestVideoFrameCallback /\ rvfcAvailable) =>
       /\ (pending'.raf > pending.raf =>
             pending'.timeout = pending.timeout - 1 /\ pc = "idle" /\ pc' = "idle")
       /\ (pc = "idle" /\ pc' = "guard1" /\ inStart' = "none" =>
             pending'.raf = pending.raf - 1 /\ pending'.timeout = pending.timeout)]_vars

\* C19 witness: under the timer strategy a cycle started by an animation
\* frame, after an earlier cycle drew and its timer expired.
C19_Witness ==
  /\ lifecycle = "mounted"
  /\ ~rvfcAvailable
  /\ pc = "guard1"
  /\ inStart = "none"
  /\ ~stopped
  /\ everDrew
  /\ NumPending = 0


\* C17: while Running, between tasks a callback is registered, and (the
\* registered callbacks firing) another gl.drawArrays call follows unless
\* the host stops the pipeline first.
C17_LoopKeepsDrawing ==
  /\ [](lifecycle = "mounted" /\ ~stopped /\ pc = "idle" => NumPending >= 1)
  /\ ((lifecycle = "mounted" /\ ~stopped /\ pc = "idle") ~> (pc = "guard2" \/ stopped))

\* C17 witness: a callback-driven cycle has drawn while Running.
C17_Witness ==
  /\ lifecycle = "mounted"
  /\ pc = "guard2"
  /\ inStart = "none"
  /\ ~stopped
  /\ firedSinceStop = 0
  /\ HasOp(ops, "drawArrays")

\* C18: if from some point on the state stays Stopped (no later start()),
\* then from some point on no callback is registered and no task runs;
\* and no cycle gets past its first guard while Stopped, so the number of
\* gl.drawArrays calls stays as it is.
C18_QuiescenceAfterStop ==
  /\ (<>[]stopped => <>[](NumPending = 0 /\ pc = "idle"))
  /\ [](stopped => pc \in {"idle", "guard1"})

\* C18 witness: after stop() the one registered callback has run and none
\* is left.
C18_Witness ==
  /\ lifecycle = "mounted"
  /\ stopped
  /\ everDrew
  /\ pc = "idle"
  /\ firedSinceStop = 1
  /\ NumPending = 0

=============================================================================
